---- MODULE Spec2Model ----
(***************************************************************************)
(* Model of the GraphQL posts-and-authors example: two in-memory Maps      *)
(* (data.js), the resolvers of schema.js, and the HTTP endpoint of         *)
(* server.js that runs one resolver call to completion at a time.          *)
(*                                                                         *)
(* A JavaScript Map is modelled as the sequence of its [key, value]        *)
(* entries in insertion order.  A GraphQL ID argument is a string, kept    *)
(* here as a sequence of one-character strings so that Number() can be     *)
(* computed character by character.                                        *)
(***************************************************************************)
EXTENDS Integers, Sequences, FiniteSets, Bags, TLC

\* ------------------------------------------------------------------ bounds
\* Largest number of upvotePost requests issued in one behaviour.
MaxUpvotes == 2
\* Largest number of requests that are in flight at the same time.
MaxInflight == 2
\* Largest number of posts of a store drawn for the relation resolvers.
MaxPosts == 2

\* -------------------------------------------------------------- seed data
authors0 ==
  << [key |-> 1, value |-> [id |-> 1, firstName |-> "Tom", lastName |-> "Coleman"]],
     [key |-> 2, value |-> [id |-> 2, firstName |-> "Sashko", lastName |-> "Stubailo"]],
     [key |-> 3, value |-> [id |-> 3, firstName |-> "Mikhail", lastName |-> "Novikov"]] >>

\* Faulty variant of the seed: the last post written by an author that is
\* not in the Author collection.
posts0Dangling ==
  << [key |-> 1, value |-> [id |-> 1, authorId |-> 1, title |-> "Introduction to GraphQL", votes |-> 2]],
     [key |-> 2, value |-> [id |-> 2, authorId |-> 2, title |-> "Welcome to Meteor", votes |-> 3]],
     [key |-> 3, value |-> [id |-> 3, authorId |-> 2, title |-> "Advanced GraphQL", votes |-> 1]],
     [key |-> 4, value |-> [id |-> 4, authorId |-> 4, title |-> "Launchpad is Cool", votes |-> 7]] >>

posts0 ==
  << [key |-> 1, value |-> [id |-> 1, authorId |-> 1, title |-> "Introduction to GraphQL", votes |-> 2]],
     [key |-> 2, value |-> [id |-> 2, authorId |-> 2, title |-> "Welcome to Meteor", votes |-> 3]],
     [key |-> 3, value |-> [id |-> 3, authorId |-> 2, title |-> "Advanced GraphQL", votes |-> 1]],
     [key |-> 4, value |-> [id |-> 4, authorId |-> 3, title |-> "Launchpad is Cool", votes |-> 7]] >>

\* ---------------------------------------------------- JavaScript values
\* The value `undefined` (what Map.prototype.get yields for an absent key).
Undefined == [type |-> "undefined"]

\* ToBoolean of a value a Map of objects can yield: objects are truthy,
\* undefined is falsy.
Truthy(v) == v # Undefined

\* The ID arguments the clients send (strings, as character sequences).
IDs ==
  { <<"1">>, <<"2">>, <<"3">>, <<"4">>, <<"5">>,
    <<"0", "2">>, <<"1", ".", "5">>, <<"a">> }

Digits == {"0", "1", "2", "3", "4", "5", "6", "7", "8", "9"}

DigitVal(c) ==
  CASE c = "0" -> 0 [] c = "1" -> 1 [] c = "2" -> 2 [] c = "3" -> 3
    [] c = "4" -> 4 [] c = "5" -> 5 [] c = "6" -> 6 [] c = "7" -> 7
    [] c = "8" -> 8 [] c = "9" -> 9

\* StrWhiteSpace is stripped from both ends of the string.
RECURSIVE TrimLeft(_)
TrimLeft(s) ==
  IF s # <<>> /\ Head(s) = " " THEN TrimLeft(Tail(s)) ELSE s

RECURSIVE TrimRight(_)
TrimRight(s) ==
  IF s # <<>> /\ s[Len(s)] = " " THEN TrimRight(SubSeq(s, 1, Len(s) - 1)) ELSE s

AllDigits(s) == \A i \in 1..Len(s) : s[i] \in Digits

\* The mathematical value of a run of decimal digits.
RECURSIVE DecimalValue(_)
DecimalValue(s) ==
  IF s = <<>> THEN 0
  ELSE 10 * DecimalValue(SubSeq(s, 1, Len(s) - 1)) + DigitVal(s[Len(s)])

\* A JavaScript number: NaN, or an integer part together with a flag that
\* tells whether a non-zero fractional part follows it.
NaN == [nan |-> TRUE, int |-> 0, fraction |-> FALSE]

\* Number(string) for strings over digits, ".", "+", "-", " " and letters
\* that start no numeric literal: white space is trimmed, the empty string
\* is 0, then an optional sign, digits, and an optional "." with digits.
Number(str) ==
  LET t == TrimRight(TrimLeft(str))
      signed == t # <<>> /\ Head(t) \in {"+", "-"}
      body == IF signed THEN Tail(t) ELSE t
      dots == {i \in 1..Len(body) : body[i] = "."}
      dot == IF dots = {} THEN Len(body) + 1 ELSE CHOOSE i \in dots : \A j \in dots : i <= j
      whole == SubSeq(body, 1, dot - 1)
      frac == SubSeq(body, dot + 1, Len(body))
      magnitude == DecimalValue(whole)
  IN IF t = <<>> THEN [nan |-> FALSE, int |-> 0, fraction |-> FALSE]
     ELSE IF \/ ~AllDigits(whole) \/ ~AllDigits(frac)
             \/ (whole = <<>> /\ frac = <<>>)
          THEN NaN
          ELSE [nan |-> FALSE,
                int |-> IF signed /\ Head(t) = "-" THEN 0 - magnitude ELSE magnitude,
                fraction |-> DecimalValue(frac) # 0]

\* SameValueZero(key, n) for an integer key of a Map and a number n.
SameValueZero(key, n) == ~n.nan /\ ~n.fraction /\ n.int = key

\* An integer as a JavaScript number (the type of id and authorId fields).
Int2Number(i) == [nan |-> FALSE, int |-> i, fraction |-> FALSE]

\* ------------------------------------------------------------ Map and Array
\* Map.prototype.get(n): the value of the entry whose key is n, or undefined.
MapGet(map, n) ==
  LET hits == {i \in 1..Len(map) : SameValueZero(map[i].key, n)}
  IN IF hits = {} THEN Undefined
     ELSE map[CHOOSE i \in hits : \A j \in hits : i <= j].value

\* Array.from(map.values()): the values in insertion order.
MapValues(map) == [i \in 1..Len(map) |-> map[i].value]

\* The position in the Map of the object a lookup returned: the model's form
\* of a reference to that object (the objects of a Map are distinct).
RefOf(map, obj) == CHOOSE i \in 1..Len(map) : map[i].value = obj

\* Faulty variants of the increment: `post.votes =+ 1`, an increment of a
\* copy of the seed, a decrement, and an increment of every post.
AddVoteAssign(map, i) == [map EXCEPT ![i].value.votes = 1]

AddVoteStale(map, i) == [map EXCEPT ![i].value.votes = posts0[i].value.votes + 1]

AddVoteDown(map, i) == [map EXCEPT ![i].value.votes = @ - 1]

AddVoteAll(map, i) ==
  [j \in 1..Len(map) |-> [map[j] EXCEPT !.value.votes = @ + 1]]

\* post.votes += 1 on the object stored at position i of the Map.
AddVote(map, i) == [map EXCEPT ![i].value.votes = @ + 1]

\* ------------------------------------------------------------------ state
VARIABLES
  authors,    \* the Map `authors` of data.js
  posts,      \* the Map `posts` of data.js
  inflight,   \* bag of root-field requests received and not yet resolved
  result,     \* what the resolver that ran last returned or threw
  invoked     \* history: per post key, the upvotePost calls resolved for that id

vars == <<authors, posts, inflight, result, invoked>>

\* The addresses an array can be allocated at.
Addresses == {1, 2}

NoResult ==
  [field |-> "none", arg |-> <<>>, parent |-> Undefined, type |-> "none",
   value |-> <<>>, ref |-> 0]

\* The requests a client can send: a root field and its ID argument.
Requests ==
  {[field |-> "posts", arg |-> <<>>]}
    \cup [field : {"author", "upvotePost"}, arg : IDs]

\* The ID string id is the number k.
Names(id, k) == Number(id) = Int2Number(k)

Keys(map) == {map[i].key : i \in 1..Len(map)}

RECURSIVE SumOver(_, _)
SumOver(f, S) ==
  IF S = {} THEN 0
  ELSE LET k == CHOOSE k \in S : TRUE IN f[k] + SumOver(f, S \ {k})

\* upvotePost requests for a stored id resolved so far, and those in flight.
UpvotesIssued ==
  SumOver(invoked, DOMAIN invoked)
    + SumOver(inflight, {r \in DOMAIN inflight : r.field = "upvotePost"})

Init ==
  /\ authors = authors0
  /\ posts = posts0
  /\ inflight = EmptyBag
  /\ result = NoResult
  /\ invoked = [k \in Keys(posts0) |-> 0]

\* ---------------------------------------------------------------- actions
\* app.use("/graphql", graphqlHTTP(...)): a request arrives; its resolver
\* runs later, after any others that are dispatched before it.
Request(r) ==
  /\ BagCardinality(inflight) < MaxInflight
  /\ r.field = "upvotePost" => UpvotesIssued < MaxUpvotes
  /\ inflight' = inflight (+) SetToBag({r})
  /\ UNCHANGED <<authors, posts, result, invoked>>

\* The address of a newly allocated array: any address no live array has.
FreshRefs == Addresses \ {result.ref}

\* Faulty variant of Query.posts: the leaderboard's limit of three posts.
PostsResolverTop3(map) == SubSeq(MapValues(map), 1, 3)

PostsResolver(map) == MapValues(map)

\* Query.posts
QueryPosts(r) ==
  /\ BagIn(r, inflight) /\ r.field = "posts"
  /\ inflight' = inflight (-) SetToBag({r})
  /\ \E a \in FreshRefs :
       result' = [field |-> "posts", arg |-> r.arg, parent |-> Undefined,
                  type |-> "[Post]", value |-> PostsResolver(posts), ref |-> a]
  /\ UNCHANGED <<authors, posts, invoked>>

NotFound(prefix, id) ==
  <<[message |-> [prefix |-> prefix, id |-> id, suffix |-> " not found."]]>>

\* Faulty variants of Query.author: the lookup without the throw (as in the
\* README's listing of the resolvers), and the lookup without Number().
AuthorResolverNoThrow(map, id) ==
  [type |-> "Author", value |-> <<MapGet(map, Number(id))>>]

AuthorResolverNoNumber(map, id) ==
  [type |-> "error", value |-> NotFound("Oops! Author with ID ", id)]

\* Query.author: what it returns (type "Author") or throws (type "error").
AuthorResolver(map, id) ==
  LET author == MapGet(map, Number(id))
  IN IF ~Truthy(author)
     THEN [type |-> "error", value |-> NotFound("Oops! Author with ID ", id)]
     ELSE [type |-> "Author", value |-> <<author>>]

QueryAuthor(r) ==
  /\ BagIn(r, inflight) /\ r.field = "author"
  /\ inflight' = inflight (-) SetToBag({r})
  /\ LET out == AuthorResolver(authors, r.arg)
     IN result' = [field |-> "author", arg |-> r.arg, parent |-> Undefined,
                   type |-> out.type, value |-> out.value, ref |-> 0]
  /\ UNCHANGED <<authors, posts, invoked>>

\* Faulty variant of Mutation.upvotePost: `if (post) post.votes += 1;`
\* in place of the throw.
UpvotePostResolverNoThrow(map, postId) ==
  LET post == MapGet(map, Number(postId))
  IN IF ~Truthy(post)
     THEN [posts |-> map, type |-> "Post", value |-> <<Undefined>>]
     ELSE LET i == RefOf(map, post)
          IN [posts |-> AddVote(map, i), type |-> "Post",
              value |-> <<AddVote(map, i)[i].value>>]

\* Mutation.upvotePost: the Map after the call, and what the call returns
\* (the post object, read after the increment) or throws.
UpvotePostResolver(map, postId) ==
  LET post == MapGet(map, Number(postId))
  IN IF ~Truthy(post)
     THEN [posts |-> map, type |-> "error",
           value |-> NotFound("Post with ID ", postId)]
     ELSE LET i == RefOf(map, post)
          IN [posts |-> AddVote(map, i), type |-> "Post",
              value |-> <<AddVote(map, i)[i].value>>]

UpvotePost(r) ==
  /\ BagIn(r, inflight) /\ r.field = "upvotePost"
  /\ inflight' = inflight (-) SetToBag({r})
  /\ LET out == UpvotePostResolver(posts, r.arg)
     IN /\ posts' = out.posts
        /\ result' = [field |-> "upvotePost", arg |-> r.arg, parent |-> Undefined,
                      type |-> out.type, value |-> out.value, ref |-> 0]
  /\ invoked' = [k \in DOMAIN invoked |->
                   IF Names(r.arg, k) THEN invoked[k] + 1 ELSE invoked[k]]
  /\ UNCHANGED authors

\* Faulty variant of Author.posts: the post's own id compared.
AuthorPostsResolverById(map, author) ==
  SelectSeq(MapValues(map), LAMBDA post : post.id = author.id)

\* Author.posts
AuthorPostsResolver(map, author) ==
  SelectSeq(MapValues(map), LAMBDA post : post.authorId = author.id)

\* The engine resolves the posts field of the Author it holds.
AuthorPosts ==
  /\ result.type = "Author" /\ Truthy(result.value[1])
  /\ \E a \in FreshRefs :
       result' = [field |-> "Author.posts", arg |-> <<>>, parent |-> result.value[1],
                  type |-> "[Post]", value |-> AuthorPostsResolver(posts, result.value[1]),
                  ref |-> a]
  /\ UNCHANGED <<authors, posts, inflight, invoked>>

\* Faulty variant of Post.author: the post's own id looked up.
PostAuthorResolverById(map, post) == MapGet(map, Int2Number(post.id))

\* Post.author
PostAuthorResolver(map, post) == MapGet(map, Int2Number(post.authorId))

\* The engine resolves the author field of a Post it holds.
PostAuthor ==
  /\ result.type \in {"Post", "[Post]"}
  /\ \E n \in 1..Len(result.value) :
       result' = [field |-> "Post.author", arg |-> <<>>, parent |-> result.value[n],
                  type |-> "Author",
                  value |-> <<PostAuthorResolver(authors, result.value[n])>>,
                  ref |-> 0]
  /\ UNCHANGED <<authors, posts, inflight, invoked>>

Next ==
  \/ \E r \in Requests : Request(r)
  \/ \E r \in Requests : QueryPosts(r)
  \/ \E r \in Requests : QueryAuthor(r)
  \/ \E r \in Requests : UpvotePost(r)
  \/ AuthorPosts
  \/ PostAuthor

Spec == Init /\ [][Next]_vars

\* ------------------------------------------- stores for the relation resolvers
\* Author.posts is a function of the Map it scans: it is also run on every
\* small Map of posts written by the authors of data.js.
StoreEntries ==
  {[key |-> k, value |-> [id |-> k, authorId |-> a, title |-> "Post", votes |-> 0]] :
     k \in 1..MaxPosts, a \in Keys(authors0)}

Stores ==
  {s \in UNION {[1..n -> StoreEntries] : n \in 0..MaxPosts} :
     \A i, j \in 1..Len(s) : s[i].key = s[j].key => i = j}

InitStore ==
  /\ authors = authors0
  /\ posts \in Stores \cup {posts0}
  /\ inflight = EmptyBag
  /\ result = NoResult
  /\ invoked = [k \in Keys(posts) |-> 0]

NextStore ==
  \/ \E r \in Requests : r.field = "author" /\ Request(r)
  \/ \E r \in Requests : QueryAuthor(r)
  \/ AuthorPosts

SpecStore == InitStore /\ [][NextStore]_vars

\* ------------------------------------------------------------- properties
\* The step is the run of the resolver of root field f.
RootStep(f) ==
  /\ result'.field = f
  /\ BagCardinality(inflight') < BagCardinality(inflight)

\* The ID string id is the number of one of the keys K.
IsKey(id, K) == \E k \in K : Names(id, k)

\* C1: upvotePost(postId) for an id that names a stored post raises that
\* post's votes by exactly 1 and returns the updated Post; a listPosts
\* that follows shows the raised value: every listed post carries its seed
\* votes plus the upvotes made for it, so after one upvotePost(1) from the
\* seed it lists post 1 with 3 votes.
C1_UpvoteIncrements ==
  /\ [][RootStep("upvotePost") /\ IsKey(result'.arg, Keys(posts)) =>
          \E i \in 1..Len(posts) :
            /\ Names(result'.arg, posts[i].key)
            /\ posts'[i].value.votes = posts[i].value.votes + 1
            /\ result'.type = "Post"
            /\ result'.value = <<posts'[i].value>>
            /\ result'.value[1].id = posts[i].key
            /\ result'.value[1].votes = posts[i].value.votes + 1]_vars
  /\ [](result.field = "posts" =>
          /\ \A i \in 1..Len(result.value) :
               result.value[i].votes
                 = posts0[i].value.votes + invoked[result.value[i].id]
          /\ invoked[1] = 1 => result.value[1].id = 1 /\ result.value[1].votes = 3)

C1_Witness ==
  /\ result.field = "posts"
  /\ invoked = [k \in Keys(posts0) |-> IF k = 1 THEN 1 ELSE 0]
  /\ result.value[1].votes = 3

\* C2: N upvotePost invocations on a stored id raise its votes by exactly N,
\* whatever other requests are in flight and in whatever order the requests
\* are resolved.
C2_NoLostUpdate ==
  \A i \in 1..Len(posts) :
    posts[i].value.votes = posts0[i].value.votes + invoked[posts[i].key]

\* One upvote of post 1 has been resolved while a second one, and a request
\* of another client, wait in flight.
C2_Witness ==
  /\ invoked[1] = 1
  /\ posts[1].value.votes = 3
  /\ CopiesIn([field |-> "upvotePost", arg |-> <<"1">>], inflight) = 1

\* C3: upvotePost(postId) for an id that is none of 1, 2, 3, 4 throws the
\* not-found error and returns no value, and no post's votes and nothing
\* else in the two Maps changes.
C3_UpvoteNotFound ==
  [][RootStep("upvotePost") /\ ~IsKey(result'.arg, {1, 2, 3, 4}) =>
       /\ result'.type = "error"
       /\ result'.value = NotFound("Post with ID ", result'.arg)
       /\ posts' = posts
       /\ authors' = authors]_vars

C3_Witness ==
  /\ result.field = "upvotePost"
  /\ result.arg = <<"5">>
  /\ result.type = "error"
  /\ posts[1].value.votes = 3

C5_AuthorFound ==
  result.field = "author" /\ IsKey(result.arg, Keys(authors)) =>
    /\ result.type = "Author"
    /\ \E i \in 1..Len(authors) : authors[i].value = result.value[1]
    /\ Names(result.arg, result.value[1].id)

\* Author 2 is returned after two upvotes have been applied.
C5_Witness ==
  /\ result.field = "author"
  /\ result.type = "Author"
  /\ result.value[1].firstName = "Sashko"
  /\ invoked[2] = 2

\* The position of post object p in the Map.
Position(map, p) == CHOOSE i \in 1..Len(map) : map[i].value = p

\* C6: postsByAuthor(author) returns exactly the posts whose authorId is
\* author.id, none missing and none extra, in the insertion order of the
\* Post collection; it is empty for an author without posts, and for
\* author 2 of the seed it is "Welcome to Meteor", "Advanced GraphQL".
C6_PostsByAuthor ==
  result.field = "Author.posts" =>
    /\ result.type = "[Post]"
    /\ \A n \in 1..Len(result.value) :
         /\ \E i \in 1..Len(posts) : posts[i].value = result.value[n]
         /\ result.value[n].authorId = result.parent.id
    /\ \A i \in 1..Len(posts) :
         posts[i].value.authorId = result.parent.id =>
           \E n \in 1..Len(result.value) : result.value[n] = posts[i].value
    /\ \A m, n \in 1..Len(result.value) :
         m < n => Position(posts, result.value[m]) < Position(posts, result.value[n])
    /\ (\A i \in 1..Len(posts) : posts[i].value.authorId # result.parent.id)
         => result.value = <<>>
    /\ (posts = posts0 /\ result.parent.id = 2) =>
         [n \in 1..Len(result.value) |-> result.value[n].title]
           = <<"Welcome to Meteor", "Advanced GraphQL">>

C6_Witness ==
  /\ result.field = "Author.posts"
  /\ result.parent.firstName = "Sashko"
  /\ Len(result.value) = 2
  /\ result.value[1].title = "Welcome to Meteor"
  /\ result.value[2].title = "Advanced GraphQL"

\* An author of data.js without a post in the store gets the empty array.
C6_WitnessEmpty ==
  /\ result.field = "Author.posts"
  /\ posts # <<>>
  /\ result.value = <<>>

\* C7: authorOfPost(post) returns the stored Author whose id is
\* post.authorId, for every post of the Post collection, in every reachable
\* state.
C7_AuthorOfPost ==
  result.field = "Post.author" =>
    /\ \E i \in 1..Len(posts) : posts[i].value = result.parent
    /\ \E i \in 1..Len(authors) : authors[i].value = result.value[1]
    /\ result.value[1].id = result.parent.authorId

\* The author of post 3, resolved after an upvote of that post.
C7_Witness ==
  /\ result.field = "Post.author"
  /\ result.parent.id = 3
  /\ result.parent.votes = 2
  /\ result.value[1].id = 2

\* C8: listPosts() returns every post of the Post collection exactly once,
\* in insertion order, unfiltered and unsorted, with the current votes, in
\* an array that is not the array of the response before it; the call
\* changes nothing in the two Maps.
C8_ListPosts ==
  [][RootStep("posts") =>
       /\ result'.type = "[Post]"
       /\ Len(result'.value) = Len(posts)
       /\ \A i \in 1..Len(posts) : result'.value[i] = posts[i].value
       /\ result'.ref \in Addresses
       /\ result.type = "[Post]" => result'.ref # result.ref
       /\ posts' = posts
       /\ authors' = authors]_vars

\* listPosts answered into an array at the second address, after an upvote
\* of post 4.
C8_Witness ==
  /\ result.field = "posts"
  /\ result.ref = 2
  /\ Len(result.value) = 4
  /\ result.value[4].votes = 8

\* C9: each post's votes is non-negative and never decreases, and the only
\* step that changes it is an upvotePost that returns that post.
C9_VotesMonotone ==
  /\ [](\A i \in 1..Len(posts) : posts[i].value.votes >= 0)
  /\ [][/\ Len(posts') = Len(posts)
        /\ \A i \in 1..Len(posts) :
             /\ posts'[i].value.votes >= posts[i].value.votes
             /\ posts'[i].value.votes # posts[i].value.votes =>
                  /\ RootStep("upvotePost")
                  /\ result'.type = "Post"
                  /\ result'.value[1].id = posts[i].value.id]_vars

C9_Witness ==
  /\ posts[3].value.votes = 3
  /\ result.field = "upvotePost"
  /\ result.value[1].id = 3

\* The fields of a post other than its votes.
Fixed(p) == [id |-> p.id, authorId |-> p.authorId, title |-> p.title]

\* C10: an upvotePost(p) that succeeds changes only the votes of post p:
\* every other post, the id, authorId and title of p, the set of post ids
\* and the whole Author collection stay as they are; getAuthor, listPosts,
\* postsByAuthor and authorOfPost change nothing.
C10_Frame ==
  [][/\ authors' = authors
     /\ Keys(posts') = Keys(posts)
     /\ Len(posts') = Len(posts)
     /\ \A i \in 1..Len(posts) :
          /\ posts'[i].key = posts[i].key
          /\ Fixed(posts'[i].value) = Fixed(posts[i].value)
          /\ (RootStep("upvotePost") /\ result'.type = "Post"
                /\ result'.value[1].id # posts[i].value.id)
               => posts'[i] = posts[i]
     /\ result'.field \in {"author", "posts", "Author.posts", "Post.author"}
          => posts' = posts]_vars

\* Post 2 was upvoted through the ID "02"; the other posts have their seed
\* votes.
C10_Witness ==
  /\ result.field = "upvotePost"
  /\ result.arg = <<"0", "2">>
  /\ result.type = "Post"
  /\ posts[2].value.votes = 4
  /\ \A i \in {1, 3, 4} : posts[i] = posts0[i]

\* The array arr holds the object p.
Holds(arr, p) == \E n \in 1..Len(arr) : arr[n] = p

\* C11: in every reachable state every post's authorId is the id of an
\* author stored in the Author collection, so authorOfPost yields a stored
\* author and never undefined, also in the responses given; and the two
\* directions of the relation agree: post p is among postsByAuthor(a)
\* exactly when authorOfPost(p) is a.
C11_ReferentialIntegrity ==
  /\ \A i \in 1..Len(posts) :
       /\ \E j \in 1..Len(authors) :
            /\ authors[j].key = posts[i].value.authorId
            /\ authors[j].value.id = posts[i].value.authorId
       /\ Truthy(PostAuthorResolver(authors, posts[i].value))
       /\ \A j \in 1..Len(authors) :
            Holds(AuthorPostsResolver(posts, authors[j].value), posts[i].value)
              <=> PostAuthorResolver(authors, posts[i].value) = authors[j].value
  /\ result.field = "Post.author" => Truthy(result.value[1])
  /\ result.field = "Author.posts" =>
       \A n \in 1..Len(result.value) :
         PostAuthorResolver(authors, result.value[n]) = result.parent

\* The posts of author 3 were resolved after an upvote of post 4, and the
\* author of the post returned is author 3.
C11_Witness ==
  /\ result.field = "Author.posts"
  /\ result.parent.id = 3
  /\ Len(result.value) = 1
  /\ result.value[1].id = 4
  /\ result.value[1].votes = 8
  /\ PostAuthorResolver(authors, result.value[1]) = result.parent

====
